---- MODULE Spec2Model ----
(***************************************************************************)
(* Interactive remote-shell relay of backend/server.py:                    *)
(* SSHConnectionManager (the registry of live SSH clients and channels),   *)
(* the five polling endpoints ssh_connect / ssh_send / ssh_read /          *)
(* ssh_disconnect / ssh_resize, and the ssh_websocket bridge.              *)
(*                                                                         *)
(* The service runs on one asyncio event loop, so a handler is atomic from *)
(* one await to the next.  The manager's methods and the polling handlers  *)
(* contain no await that yields (SSHConnectionManager.connect is declared  *)
(* async but only makes blocking calls), so each polling call is one       *)
(* action.  ssh_websocket yields at receive_text, send_json and sleep; it  *)
(* is one action per stretch between two such awaits.                      *)
(***************************************************************************)
EXTENDS Integers, Sequences, FiniteSets, TLC

\* ---------------------------------------------------------------- bounds
MaxIds == 2          \* connection ids secrets.token_urlsafe can hand out
MaxBridges == 2      \* websocket connections opened during a run
MaxProduce == 1      \* bytes the remote shell of one channel produces
MaxIn == 1           \* writes of InputData the clients make to one channel
MaxLong == 1         \* writes of LongData the clients make to one channel
SendSize == 2        \* bytes one Channel.send call takes at most (window, packet size), scaled down
MaxWide == 1         \* two-byte characters the remote shell of one channel produces
RecvSize == 2        \* bytes one Channel.recv call takes at most: recv(4096), scaled down

Ids == 1..MaxIds
Bridges == 1..MaxBridges
Handles == 1..MaxIds

Roles == {"admin", "user", "readonly"}
Targets == {"linux", "windows", "missing"}   \* os_type of the host record, or no record
InputData == {<<"x", "y">>}        \* a write that one Channel.send call takes whole
LongData == {<<"p", "q", "r">>}    \* a write longer than one Channel.send call takes
InitialGeometry == "120x40"
Geometries == {"80x24"}            \* cols and rows given as positive integers
\* cols/rows absent from the request, not integers, or zero
MalformedGeometries == {"missing", "non_integer", "0x0"}
OpenOutcomes == {"ok", "unreachable", "shell_failed"}
ClientEvents == {"timeout", "input", "resize", "other", "malformed", "close"}
Callers == {"authenticated", "anonymous"}   \* with a valid JWT, or without
CloseOutcomes == {"closed", "raised"}       \* what a close() call does
PollingOps == {"connect", "send", "read", "disconnect", "resize"}
ActivePcs == {"recv", "send_output", "send_disconnected", "sleep"}
\* recv calls one drain can make, and which of them raises (0: none)
MaxChunks == (MaxProduce + 2 * MaxWide + RecvSize - 1) \div RecvSize
FailPoints == 0..MaxChunks

VARIABLES
    service,       \* "running" | "stopped": the application between startup and shutdown
    paramiko,      \* "available" | "None": result of the guarded import
    callers,       \* who opened each websocket, where the run tells callers apart ("-" otherwise)
    issued,        \* connection ids drawn so far by secrets.token_urlsafe
    connections,   \* ssh_manager.connections: id -> client handle
    channels,      \* ssh_manager.channels: id -> channel handle
    client,        \* paramiko.SSHClient objects by handle: their state
    chan,          \* paramiko.Channel objects by handle
    bridges,       \* one ssh_websocket handler per websocket connection
    observed,      \* whether this run records the responses of the polling endpoints
    resp,          \* the last response of a polling endpoint (when observed)
    disconnected,  \* ids of registered sessions on which ssh_disconnect has returned
    failed_sends   \* ids of sessions on which a Channel.send has raised

vars == <<service, paramiko, callers, issued, connections, channels, client, chan, bridges, observed, resp,
          disconnected, failed_sends>>

\* ------------------------------------------------------------- helpers
Without(f, k) == [x \in DOMAIN f \ {k} |-> f[x]]
With(f, k, v) == [x \in DOMAIN f \cup {k} |-> IF x = k THEN v ELSE f[x]]

\* A channel: its state, the bytes it has taken from the clients (inbuf) and
\* the data of the send calls that took them (writes, a record of the run), the bytes of the
\* remote shell not yet taken by recv (outbuf), how many bytes and how many
\* two-byte characters the remote has produced, the pty geometry, and, as a
\* record of the run, everything read_output has returned for it (received).
NoChannel == [state |-> "none", inbuf |-> <<>>, writes |-> <<>>, outbuf |-> <<>>, produced |-> 0,
              wide |-> 0, pty |-> "none", received |-> <<>>]
NewChannel == [state |-> "open", inbuf |-> <<>>, writes |-> <<>>, outbuf |-> <<>>, produced |-> 0,
               wide |-> 0, pty |-> InitialGeometry, received |-> <<>>]

\* The manager and the paramiko objects it refers to, as one value.
W == [connections |-> connections, channels |-> channels, client |-> client, chan |-> chan]

SetW(w) ==
    /\ connections' = w.connections
    /\ channels' = w.channels
    /\ client' = w.client
    /\ chan' = w.chan

\* connect as it would be if it took an object that is already in use
NextHandle_reused(w) == 1

\* paramiko.SSHClient() builds a new object on every call.
NextHandle(w) == CHOOSE h \in Handles : w.client[h] = "none" /\ \A g \in 1..(h - 1) : w.client[g] # "none"

\* ------------------------------------------- SSHConnectionManager methods
is_connected(w, cid) == cid \in DOMAIN w.connections /\ cid \in DOMAIN w.channels

\* connect as it would be if it returned between its two insertions
connect_transport_only(w, cid, outcome) ==
    LET h == NextHandle(w) IN
    CASE outcome = "unreachable" ->
            [w |-> [w EXCEPT !.client[h] = "unconnected"], ret |-> FALSE, opens |-> 1]
      [] outcome = "shell_failed" ->
            [w |-> [w EXCEPT !.client[h] = "open"], ret |-> FALSE, opens |-> 1]
      [] outcome = "ok" ->
            [w |-> [w EXCEPT !.client[h] = "open",
                             !.chan[h] = NewChannel,
                             !.connections = With(w.connections, cid, h)],
             ret |-> TRUE, opens |-> 1]

\* connect as it would be if the client were stored as soon as the transport is up
connect_stores_early(w, cid, outcome) ==
    LET h == NextHandle(w) IN
    CASE outcome = "unreachable" ->
            [w |-> [w EXCEPT !.client[h] = "unconnected"], ret |-> FALSE, opens |-> 1]
      [] outcome = "shell_failed" ->
            [w |-> [w EXCEPT !.client[h] = "open", !.connections = With(w.connections, cid, h)],
             ret |-> FALSE, opens |-> 1]
      [] outcome = "ok" ->
            [w |-> [w EXCEPT !.client[h] = "open",
                             !.chan[h] = NewChannel,
                             !.connections = With(w.connections, cid, h),
                             !.channels = With(w.channels, cid, h)],
             ret |-> TRUE, opens |-> 1]

\* outcome is what the remote host does with this attempt: "unreachable" when
\* client.connect raises (unreachable, authentication rejected, timeout),
\* "shell_failed" when invoke_shell or setblocking raises, "ok" otherwise.
connect(w, cid, outcome) ==
    IF paramiko = "None" THEN [w |-> w, ret |-> FALSE, opens |-> 0]
    ELSE LET h == NextHandle(w) IN
        CASE outcome = "unreachable" ->
                [w |-> [w EXCEPT !.client[h] = "unconnected"], ret |-> FALSE, opens |-> 1]
          [] outcome = "shell_failed" ->
                [w |-> [w EXCEPT !.client[h] = "open"], ret |-> FALSE, opens |-> 1]
          [] outcome = "ok" ->
                [w |-> [w EXCEPT !.client[h] = "open",
                                 !.chan[h] = NewChannel,
                                 !.connections = With(w.connections, cid, h),
                                 !.channels = With(w.channels, cid, h)],
                 ret |-> TRUE, opens |-> 1]

\* What one Channel.send(data) call transmits: send takes as much of data as
\* the send window and the packet size allow and returns that count, which
\* send_command does not look at.
Taken(data) == SubSeq(data, 1, IF Len(data) < SendSize THEN Len(data) ELSE SendSize)

\* send_command as it would be if the data went to every open channel
send_command_broadcast(w, cid, data) ==
    IF cid \notin DOMAIN w.channels THEN [w |-> w, ret |-> FALSE, raised |-> FALSE]
    ELSE LET h == w.channels[cid] IN
        IF w.chan[h].state = "open"
        THEN [w |-> [w EXCEPT !.chan = [g \in Handles |->
                        IF w.chan[g].state = "open"
                        THEN [w.chan[g] EXCEPT !.inbuf = @ \o Taken(data), !.writes = Append(@, data)]
                        ELSE w.chan[g]]],
              ret |-> TRUE, raised |-> FALSE]
        ELSE [w |-> w, ret |-> FALSE, raised |-> TRUE]

\* send_command as it would be if looking up an unknown id created its entry
send_command_registers(w, cid, data) ==
    IF cid \notin DOMAIN w.channels
    THEN [w |-> [w EXCEPT !.channels = With(w.channels, cid, 1)], ret |-> FALSE, raised |-> FALSE]
    ELSE LET h == w.channels[cid] IN
        IF w.chan[h].state = "open"
        THEN [w |-> [w EXCEPT !.chan[h].inbuf = @ \o Taken(data), !.chan[h].writes = Append(@, data)],
              ret |-> TRUE, raised |-> FALSE]
        ELSE [w |-> w, ret |-> FALSE, raised |-> TRUE]

\* Channel.send raises once the channel is closed or the remote is gone.
send_command(w, cid, data) ==
    IF cid \notin DOMAIN w.channels THEN [w |-> w, ret |-> FALSE, raised |-> FALSE]
    ELSE LET h == w.channels[cid] IN
        IF w.chan[h].state = "open"
        THEN [w |-> [w EXCEPT !.chan[h].inbuf = @ \o Taken(data), !.chan[h].writes = Append(@, data)],
              ret |-> TRUE, raised |-> FALSE]
        ELSE [w |-> w, ret |-> FALSE, raised |-> TRUE]

\* bytes.decode('utf-8', errors='replace') of one chunk.  A byte is
\* [n |-> its number in the remote's output, k |-> "ascii" | "lead" | "cont"];
\* a lead byte followed by its continuation byte is one character, a lead
\* byte at the end of the chunk and a continuation byte without its lead are
\* each replaced by U+FFFD.  src lists the bytes a character was made from.
RECURSIVE decode(_)
decode(chunk) ==
    IF chunk = <<>> THEN <<>>
    ELSE LET b == Head(chunk) IN
        IF b.k = "ascii"
        THEN <<[src |-> <<b.n>>, ch |-> "ascii"]>> \o decode(Tail(chunk))
        ELSE IF b.k = "lead" /\ Len(chunk) >= 2 /\ chunk[2].k = "cont"
        THEN <<[src |-> <<b.n, chunk[2].n>>, ch |-> "wide"]>> \o decode(Tail(Tail(chunk)))
        ELSE <<[src |-> <<b.n>>, ch |-> "U+FFFD"]>> \o decode(Tail(chunk))

\* The loop of read_output on the buffer buf of one channel: recv_ready() is
\* true while buf is not empty, recv(4096) takes the next chunk, and the
\* fail-th recv call raises (fail = 0: none does), which the bare except
\* answers with "".
RECURSIVE drain_loop(_, _, _, _)
drain_loop(buf, output, calls, fail) ==
    IF buf = <<>> THEN [buf |-> buf, output |-> output, raised |-> FALSE]
    ELSE IF calls + 1 = fail THEN [buf |-> buf, output |-> <<>>, raised |-> TRUE]
    ELSE LET n == IF Len(buf) < RecvSize THEN Len(buf) ELSE RecvSize IN
         drain_loop(SubSeq(buf, n + 1, Len(buf)), output \o decode(SubSeq(buf, 1, n)),
                    calls + 1, fail)

\* read_output as it would be if recv left the bytes in the channel buffer
read_output_keeps_buffer(w, cid, fail) ==
    IF cid \notin DOMAIN w.channels THEN [w |-> w, output |-> <<>>]
    ELSE LET h == w.channels[cid]
             r == drain_loop(w.chan[h].outbuf, <<>>, 0, fail)
         IN  [w |-> [w EXCEPT !.chan[h].received = @ \o r.output], output |-> r.output]

\* read_output as it would be if each chunk were put in front of the output
read_output_prepends(w, cid, fail) ==
    IF cid \notin DOMAIN w.channels THEN [w |-> w, output |-> <<>>]
    ELSE LET h == w.channels[cid]
             r == drain_loop(w.chan[h].outbuf, <<>>, 0, fail)
             out == [i \in DOMAIN r.output |-> r.output[Len(r.output) + 1 - i]]
         IN  [w |-> [w EXCEPT !.chan[h].outbuf = r.buf, !.chan[h].received = @ \o out],
              output |-> out]

\* try: while recv_ready(): output += recv(4096).decode(...); return output
\* except: return ""
read_output(w, cid, fail) ==
    IF cid \notin DOMAIN w.channels THEN [w |-> w, output |-> <<>>]
    ELSE LET h == w.channels[cid]
             r == drain_loop(w.chan[h].outbuf, <<>>, 0, fail)
         IN  [w |-> [w EXCEPT !.chan[h].outbuf = r.buf, !.chan[h].received = @ \o r.output],
              output |-> r.output]

\* disconnect as it would be without the two del statements
disconnect_keeps_entries(w, cid) ==
    LET w1 == IF cid \in DOMAIN w.channels
              THEN [w EXCEPT !.chan[w.channels[cid]].state = "closed"]
              ELSE w
    IN  IF cid \in DOMAIN w1.connections
        THEN [w1 EXCEPT !.client[w1.connections[cid]] = "closed"]
        ELSE w1

\* disconnect as it would be if the handler gave up the event loop between
\* the channel half and the client half
disconnect_channel_half(w, cid) ==
    IF cid \in DOMAIN w.channels
    THEN [w |-> [w EXCEPT !.chan[w.channels[cid]].state = "closed",
                          !.channels = Without(w.channels, cid)],
          mid |-> w,
          calls |-> <<<<"channel.close", w.channels[cid]>>>>]
    ELSE [w |-> w, mid |-> w, calls |-> <<>>]

\* disconnect as it would be with the client closed before the channel
disconnect_client_first(w, cid) ==
    LET c1 == IF cid \in DOMAIN w.connections
              THEN <<<<"client.close", w.connections[cid]>>>> ELSE <<>>
        w1 == IF cid \in DOMAIN w.connections
              THEN [w EXCEPT !.client[w.connections[cid]] = "closed",
                             !.connections = Without(w.connections, cid)]
              ELSE w
        c2 == IF cid \in DOMAIN w1.channels
              THEN <<<<"channel.close", w1.channels[cid]>>>> ELSE <<>>
        w2 == IF cid \in DOMAIN w1.channels
              THEN [w1 EXCEPT !.chan[w1.channels[cid]].state = "closed",
                              !.channels = Without(w1.channels, cid)]
              ELSE w1
    IN  [w |-> w2, mid |-> w1, calls |-> c1 \o c2]

\* disconnect as it would be if the two del statements were missing
disconnect_without_del(w, cid) ==
    LET c1 == IF cid \in DOMAIN w.channels
              THEN <<<<"channel.close", w.channels[cid]>>>> ELSE <<>>
        w1 == IF cid \in DOMAIN w.channels
              THEN [w EXCEPT !.chan[w.channels[cid]].state = "closed"]
              ELSE w
        c2 == IF cid \in DOMAIN w1.connections
              THEN <<<<"client.close", w1.connections[cid]>>>> ELSE <<>>
        w2 == IF cid \in DOMAIN w1.connections
              THEN [w1 EXCEPT !.client[w1.connections[cid]] = "closed"]
              ELSE w1
    IN  [w |-> w2, mid |-> w1, calls |-> c1 \o c2]

\* One run of disconnect (lines 149-161), statement by statement: the channel
\* half (close, del) and then the client half (close, del).  w is the manager
\* when disconnect returns, mid the manager between the two halves, calls the
\* close calls made, in order.  There is no await in disconnect, so no other
\* handler runs at mid.
disconnect_run(w, cid) ==
    LET c1 == IF cid \in DOMAIN w.channels
              THEN <<<<"channel.close", w.channels[cid]>>>> ELSE <<>>
        w1 == IF cid \in DOMAIN w.channels
              THEN [w EXCEPT !.chan[w.channels[cid]].state = "closed",
                             !.channels = Without(w.channels, cid)]
              ELSE w
        c2 == IF cid \in DOMAIN w1.connections
              THEN <<<<"client.close", w1.connections[cid]>>>> ELSE <<>>
        w2 == IF cid \in DOMAIN w1.connections
              THEN [w1 EXCEPT !.client[w1.connections[cid]] = "closed",
                              !.connections = Without(w1.connections, cid)]
              ELSE w1
    IN  [w |-> w2, mid |-> w1, calls |-> c1 \o c2]

disconnect(w, cid) == disconnect_run(w, cid).w

\* disconnect as it would be without the try around each close: a close
\* that raises ends the call at once
disconnect_closing_unguarded(w, cid, chan_close, client_close) ==
    IF cid \in DOMAIN w.channels /\ chan_close = "raised"
    THEN [w |-> [w EXCEPT !.chan[w.channels[cid]].state = "close_raised"],
          calls |-> <<<<"channel.close", w.channels[cid]>>>>, raised |-> TRUE]
    ELSE LET w1 == IF cid \in DOMAIN w.channels
                   THEN [w EXCEPT !.chan[w.channels[cid]].state = "closed",
                                  !.channels = Without(w.channels, cid)]
                   ELSE w
             c1 == IF cid \in DOMAIN w.channels
                   THEN <<<<"channel.close", w.channels[cid]>>>> ELSE <<>>
         IN  IF cid \in DOMAIN w1.connections /\ client_close = "raised"
             THEN [w |-> [w1 EXCEPT !.client[w1.connections[cid]] = "close_raised"],
                   calls |-> c1 \o <<<<"client.close", w1.connections[cid]>>>>, raised |-> TRUE]
             ELSE [w |-> disconnect(w1, cid),
                   calls |-> c1 \o (IF cid \in DOMAIN w1.connections
                                    THEN <<<<"client.close", w1.connections[cid]>>>> ELSE <<>>),
                   raised |-> FALSE]

\* disconnect with closes that can fail (lines 150-161): chan_close and
\* client_close say whether channel.close() and client.close() return
\* ("closed") or raise ("raised").  Each close is in a try whose bare except
\* passes, and the del that follows it is outside the try.  An object whose
\* close raised is in state "close_raised".  calls are the close calls made,
\* in order; raised says whether an exception leaves disconnect.
disconnect_closing(w, cid, chan_close, client_close) ==
    LET c1 == IF cid \in DOMAIN w.channels
              THEN <<<<"channel.close", w.channels[cid]>>>> ELSE <<>>
        w1 == IF cid \in DOMAIN w.channels
              THEN [w EXCEPT !.chan[w.channels[cid]].state =
                                    IF chan_close = "raised" THEN "close_raised" ELSE "closed",
                             !.channels = Without(w.channels, cid)]
              ELSE w
        c2 == IF cid \in DOMAIN w1.connections
              THEN <<<<"client.close", w1.connections[cid]>>>> ELSE <<>>
        w2 == IF cid \in DOMAIN w1.connections
              THEN [w1 EXCEPT !.client[w1.connections[cid]] =
                                    IF client_close = "raised" THEN "close_raised" ELSE "closed",
                              !.connections = Without(w1.connections, cid)]
              ELSE w1
    IN  [w |-> w2, calls |-> c1 \o c2, raised |-> FALSE]

\* is_alive of the relay's contract: registered, and no close, error or EOF seen
\* on the channel or the client.  The code never evaluates it.
SessionAlive(w, cid) ==
    /\ is_connected(w, cid)
    /\ w.chan[w.channels[cid]].state = "open"
    /\ w.client[w.connections[cid]] = "open"

\* data.get("cols", 80), data.get("rows", 24): what is passed to resize_pty
GeometryPassed(geometry) == IF geometry = "missing" THEN "80x24" ELSE geometry

\* Channel.resize_pty raises on a channel that is not open, and when width or
\* height cannot be packed as an unsigned integer.
resize_raises(w, cid, geometry) ==
    /\ cid \in DOMAIN w.channels
    /\ w.chan[w.channels[cid]].state # "open" \/ geometry = "non_integer"

\* the resize as it would be if a failing resize_pty ended the session
resize_pty_fatal(w, cid, geometry) ==
    IF cid \in DOMAIN w.channels /\ ~resize_raises(w, cid, geometry)
    THEN [w EXCEPT !.chan[w.channels[cid]].pty = GeometryPassed(geometry)]
    ELSE disconnect(w, cid)

\* The guarded resize_pty call of ssh_resize and of the bridge: resize_pty
\* raises on a channel that is not open and the exception is swallowed.
resize_pty(w, cid, geometry) ==
    IF cid \in DOMAIN w.channels /\ ~resize_raises(w, cid, geometry)
    THEN [w EXCEPT !.chan[w.channels[cid]].pty = GeometryPassed(geometry)]
    ELSE w

\* ------------------------------------------------------------------ Init
NoResp == [op |-> "none", role |-> "-", cid |-> 0, os |-> "-", outcome |-> "-", code |-> 0,
           detail |-> "-", touched |-> FALSE, opens |-> 0, regsame |-> TRUE, ret |-> "-", output |-> <<>>,
           geometry |-> "-"]

\* gone: the client has closed the stream and the handler has not yet met it
IdleBridge == [pc |-> "idle", cid |-> 0, pending |-> <<>>, log |-> <<>>, exit |-> "-", gone |-> FALSE]

InitCommon ==
    /\ service = "running"
    /\ paramiko \in {"available", "None"}
    /\ callers = [b \in Bridges |-> "-"]
    /\ issued = {}
    /\ connections = <<>>
    /\ channels = <<>>
    /\ client = [h \in Handles |-> "none"]
    /\ chan = [h \in Handles |-> NoChannel]
    /\ bridges = [b \in Bridges |-> IdleBridge]
    /\ resp = NoResp
    /\ disconnected = {}
    /\ failed_sends = {}

Init == InitCommon /\ observed = FALSE
InitFacade == InitCommon /\ observed = TRUE

Observe(r) == IF observed THEN r ELSE NoResp

\* secrets.token_urlsafe(16): the n-th token drawn is named n; a token is never drawn twice.
NewToken == Cardinality(issued) + 1

RegSame(w) == DOMAIN w.connections = DOMAIN connections /\ DOMAIN w.channels = DOMAIN channels

\* ------------------------------------------------------ polling endpoints
ShellCapable_any(os) == TRUE

\* server.get("os_type") != "linux" is rejected
ShellCapable(os) == os = "linux"

Reply(op, role, cid, code, detail) ==
    [NoResp EXCEPT !.op = op, !.role = role, !.cid = cid, !.code = code, !.detail = detail]

ssh_connect(role, os, outcome) ==
    /\ UNCHANGED <<service, paramiko, callers, observed, bridges, disconnected, failed_sends>>
    /\ IF role = "readonly" THEN
            /\ resp' = Observe([Reply("connect", role, 0, 403, "Permission denied") EXCEPT !.os = os])
            /\ UNCHANGED <<issued, connections, channels, client, chan>>
       ELSE IF paramiko = "None" THEN
            /\ resp' = Observe([Reply("connect", role, 0, 500, "SSH not available") EXCEPT !.os = os])
            /\ UNCHANGED <<issued, connections, channels, client, chan>>
       ELSE IF os = "missing" THEN
            /\ resp' = Observe([Reply("connect", role, 0, 404, "Server not found") EXCEPT !.os = os])
            /\ UNCHANGED <<issued, connections, channels, client, chan>>
       ELSE IF ~ShellCapable(os) THEN
            /\ resp' = Observe([Reply("connect", role, 0, 400, "SSH only available for Linux servers")
                            EXCEPT !.os = os])
            /\ UNCHANGED <<issued, connections, channels, client, chan>>
       ELSE LET cid == NewToken
                r == connect(W, cid, outcome) IN
            /\ cid \in Ids
            /\ issued' = issued \cup {cid}
            /\ SetW(r.w)
            /\ resp' = Observe([(IF r.ret
                         THEN Reply("connect", role, cid, 200, "SSH connection established")
                         ELSE Reply("connect", role, 0, 400, "Failed to establish SSH connection"))
                            EXCEPT !.os = os, !.outcome = outcome, !.opens = r.opens,
                                   !.touched = r.opens > 0, !.regsame = RegSame(r.w)])

\* The number of writes the clients make to one channel is bounded.
CanWrite(cid, data) ==
    cid \in DOMAIN channels =>
        LET ws == chan[channels[cid]].writes IN
        Cardinality({i \in DOMAIN ws : ws[i] \in LongData <=> data \in LongData})
            < (IF data \in LongData THEN MaxLong ELSE MaxIn)

ssh_send(role, cid, data) ==
    /\ CanWrite(cid, data)
    /\ UNCHANGED <<service, paramiko, callers, observed, issued, bridges, disconnected>>
    /\ IF ~is_connected(W, cid) THEN
            /\ resp' = Observe(Reply("send", role, cid, 400, "SSH connection not found"))
            /\ UNCHANGED <<connections, channels, client, chan, failed_sends>>
       ELSE LET r == send_command(W, cid, data) IN
            /\ SetW(r.w)
            /\ resp' = Observe([Reply("send", role, cid, 200, "sent")
                            EXCEPT !.touched = TRUE, !.ret = IF r.ret THEN "True" ELSE "False",
                                   !.regsame = RegSame(r.w)])
            /\ failed_sends' = IF r.raised THEN failed_sends \cup {cid} ELSE failed_sends

\* ssh_read as it would be if an empty read_output were answered as an error
ssh_read_empty_is_error(role, cid, fail) ==
    /\ UNCHANGED <<service, paramiko, callers, observed, issued, bridges, disconnected, failed_sends>>
    /\ LET r == read_output(W, cid, fail) IN
       IF ~is_connected(W, cid) \/ r.output = <<>> THEN
            /\ resp' = Observe(Reply("read", role, cid, 400, "SSH connection not found"))
            /\ UNCHANGED <<connections, channels, client, chan>>
       ELSE /\ SetW(r.w)
            /\ resp' = Observe([Reply("read", role, cid, 200, "output")
                            EXCEPT !.touched = TRUE, !.output = r.output, !.regsame = RegSame(r.w)])

ssh_read(role, cid, fail) ==
    /\ UNCHANGED <<service, paramiko, callers, observed, issued, bridges, disconnected, failed_sends>>
    /\ IF ~is_connected(W, cid) THEN
            /\ resp' = Observe(Reply("read", role, cid, 400, "SSH connection not found"))
            /\ UNCHANGED <<connections, channels, client, chan>>
       ELSE LET r == read_output(W, cid, fail) IN
            /\ SetW(r.w)
            /\ resp' = Observe([Reply("read", role, cid, 200, "output")
                            EXCEPT !.touched = TRUE, !.output = r.output, !.regsame = RegSame(r.w)])

ssh_disconnect(role, cid) ==
    LET w == disconnect(W, cid) IN
    /\ UNCHANGED <<service, paramiko, callers, observed, issued, bridges, failed_sends>>
    /\ SetW(w)
    /\ disconnected' = IF is_connected(W, cid) THEN disconnected \cup {cid} ELSE disconnected
    /\ resp' = Observe([Reply("disconnect", role, cid, 200, "SSH connection closed")
                    EXCEPT !.touched = (cid \in DOMAIN channels \/ cid \in DOMAIN connections),
                           !.regsame = RegSame(w)])

\* ssh_disconnect when the closes can fail: an exception that left
\* disconnect would be answered 500 by the framework
ssh_disconnect_closing(role, cid, chan_close, client_close) ==
    LET r == disconnect_closing(W, cid, chan_close, client_close) IN
    /\ UNCHANGED <<service, paramiko, callers, observed, issued, bridges, failed_sends>>
    /\ SetW(r.w)
    /\ disconnected' = IF is_connected(W, cid) THEN disconnected \cup {cid} ELSE disconnected
    /\ resp' = Observe([(IF r.raised
                         THEN Reply("disconnect", role, cid, 500, "Internal Server Error")
                         ELSE Reply("disconnect", role, cid, 200, "SSH connection closed"))
                    EXCEPT !.touched = (cid \in DOMAIN channels \/ cid \in DOMAIN connections),
                           !.regsame = RegSame(r.w)])

ssh_resize(role, cid, geometry) ==
    /\ UNCHANGED <<service, paramiko, callers, observed, issued, bridges, disconnected, failed_sends>>
    /\ IF ~is_connected(W, cid) THEN
            /\ resp' = Observe(Reply("resize", role, cid, 400, "SSH connection not found"))
            /\ UNCHANGED <<connections, channels, client, chan>>
       ELSE LET w == resize_pty(W, cid, geometry) IN
            /\ SetW(w)
            /\ resp' = Observe([Reply("resize", role, cid, 200, "resized")
                            EXCEPT !.touched = TRUE, !.regsame = RegSame(w),
                                   !.geometry = geometry,
                                   !.ret = IF resize_raises(W, cid, geometry)
                                           THEN "Raised" ELSE "Resized"])

\* ------------------------------------------------------------ ssh_websocket
ssh_websocket_finally_skipped(w, cid) == w

\* try: ... finally: ssh_manager.disconnect(connection_id)
ssh_websocket_finally(w, cid) == disconnect(w, cid)

\* the loop as it would be without the alive check
AfterAliveCheck_skipped(w, cid) == "sleep"

\* the alive check at the end of one loop iteration
AfterAliveCheck(w, cid) == IF is_connected(w, cid) THEN "sleep" ELSE "send_disconnected"

\* the stream handler as it would be without the is_connected check
ssh_websocket_open_unchecked(b, cid) ==
    /\ bridges[b].pc = "idle"
    /\ \A a \in Bridges : a < b => bridges[a].pc # "idle"
    /\ bridges' = [bridges EXCEPT ![b] = [@ EXCEPT !.pc = "recv", !.cid = cid]]
    /\ UNCHANGED <<service, paramiko, callers, observed, issued, connections, channels, client, chan, resp,
                   disconnected, failed_sends>>

\* accept(), the is_connected check, and close(code=4000) for an unknown id:
\* the handler has no parameter that carries a credential and reads none
\* from the websocket.
ssh_websocket_accept(b, cid) ==
    /\ bridges[b].pc = "idle"
    /\ \A a \in Bridges : a < b => bridges[a].pc # "idle"
    /\ bridges' = [bridges EXCEPT ![b] =
            IF ~is_connected(W, cid)
            THEN [@ EXCEPT !.pc = "rejected", !.cid = cid, !.exit = "4000"]
            ELSE [@ EXCEPT !.pc = "recv", !.cid = cid]]
    /\ UNCHANGED <<service, paramiko, observed, issued, connections, channels, client, chan, resp, disconnected, failed_sends>>

\* a websocket opened on /api/ws/ssh/{cid}, by whoever
ssh_websocket_open(b, cid) ==
    /\ ssh_websocket_accept(b, cid)
    /\ UNCHANGED callers

\* a websocket opened on /api/ws/ssh/{cid} by a caller who holds a valid
\* token ("authenticated") or none ("anonymous")
ssh_websocket_open_by(b, cid, caller) ==
    /\ ssh_websocket_accept(b, cid)
    /\ callers' = [callers EXCEPT ![b] = caller]

\* A polling endpoint called without a valid token: the get_current_user
\* dependency raises 401 before the body of the endpoint runs.
get_current_user_rejects(op, cid) ==
    /\ resp' = Observe(Reply(op, "anonymous", cid, 401, "Invalid token"))
    /\ UNCHANGED <<service, paramiko, callers, observed, issued, connections, channels, client, chan,
                   bridges, disconnected, failed_sends>>

\* the dispatch as it would be if `input` messages were not forwarded
HandleMessage_input_dropped(w, cid, ev, data, geometry) ==
    CASE ev = "resize" -> [w |-> resize_pty(w, cid, geometry), ret |-> TRUE, raised |-> FALSE]
      [] OTHER -> [w |-> w, ret |-> TRUE, raised |-> FALSE]

\* What one client message does to the manager (lines 2146-2157).
HandleMessage(w, cid, ev, data, geometry) ==
    CASE ev = "input" -> send_command(w, cid, data)
      [] ev = "resize" -> [w |-> resize_pty(w, cid, geometry), ret |-> TRUE, raised |-> FALSE]
      [] OTHER -> [w |-> w, ret |-> TRUE, raised |-> FALSE]

\* From receive_text to the next await: the client event, the drain and,
\* when nothing was drained, the alive check.
ssh_websocket_recv(b, ev, data, geometry, fail) ==
    LET cid == bridges[b].cid IN
    /\ bridges[b].pc = "recv"
    /\ ev = "input" => CanWrite(cid, data)
    /\ bridges[b].gone => ev = "close"
    /\ UNCHANGED <<service, paramiko, callers, observed, issued, resp, disconnected>>
    /\ IF ev \in {"close", "malformed"} THEN
            /\ SetW(ssh_websocket_finally(W, cid))
            /\ bridges' = [bridges EXCEPT ![b].pc = "closed",
                                          ![b].exit = IF ev = "close" THEN "client_closed" ELSE "error"]
            /\ UNCHANGED failed_sends
       ELSE LET m == HandleMessage(W, cid, ev, data, geometry)
                r == read_output(m.w, cid, fail)
            IN  /\ SetW(r.w)
                /\ failed_sends' = IF m.raised THEN failed_sends \cup {cid} ELSE failed_sends
                /\ bridges' = [bridges EXCEPT
                        ![b].pending = r.output,
                        ![b].pc = IF r.output # <<>> THEN "send_output"
                                  ELSE AfterAliveCheck(r.w, cid)]

\* the handler as it would be if it went on without sending what it drained
ssh_websocket_send_output_dropped(b, ok) ==
    LET cid == bridges[b].cid IN
    /\ bridges[b].pc = "send_output"
    /\ UNCHANGED <<service, paramiko, callers, observed, issued, resp, disconnected, failed_sends>>
    /\ bridges' = [bridges EXCEPT ![b].pending = <<>>, ![b].pc = AfterAliveCheck(W, cid)]
    /\ UNCHANGED <<connections, channels, client, chan>>

\* await websocket.send_json({"type": "output", ...}), then the alive check
ssh_websocket_send_output(b, ok) ==
    LET cid == bridges[b].cid IN
    /\ bridges[b].pc = "send_output"
    /\ UNCHANGED <<service, paramiko, callers, observed, issued, resp, disconnected, failed_sends>>
    /\ IF ok THEN
            /\ bridges' = [bridges EXCEPT
                    ![b].log = Append(@, [type |-> "output", data |-> bridges[b].pending]),
                    ![b].pending = <<>>,
                    ![b].pc = AfterAliveCheck(W, cid)]
            /\ UNCHANGED <<connections, channels, client, chan>>
       ELSE /\ SetW(ssh_websocket_finally(W, cid))
            /\ bridges' = [bridges EXCEPT ![b].pc = "closed", ![b].exit = "error"]

\* await websocket.send_json({"type": "disconnected"}); break
ssh_websocket_send_disconnected(b, ok) ==
    LET cid == bridges[b].cid IN
    /\ bridges[b].pc = "send_disconnected"
    /\ UNCHANGED <<service, paramiko, callers, observed, issued, resp, disconnected, failed_sends>>
    /\ SetW(ssh_websocket_finally(W, cid))
    /\ bridges' = [bridges EXCEPT
            ![b].log = IF ok THEN Append(@, [type |-> "disconnected", data |-> <<>>]) ELSE @,
            ![b].pc = "closed",
            ![b].exit = IF ok THEN "not_alive" ELSE "error"]

\* The client closes the stream while the handler is not in receive_text:
\* the next receive_text raises WebSocketDisconnect.
ClientClose(b) ==
    /\ bridges[b].pc \in {"send_output", "send_disconnected", "sleep"}
    /\ ~bridges[b].gone
    /\ bridges' = [bridges EXCEPT ![b].gone = TRUE]
    /\ UNCHANGED <<service, paramiko, callers, observed, issued, connections, channels, client, chan, resp,
                   disconnected, failed_sends>>

\* await asyncio.sleep(0.05)
ssh_websocket_sleep(b) ==
    /\ bridges[b].pc = "sleep"
    /\ bridges' = [bridges EXCEPT ![b].pc = "recv"]
    /\ UNCHANGED <<service, paramiko, callers, observed, issued, connections, channels, client, chan, resp, disconnected, failed_sends>>

\* ------------------------------------------------------------ remote host
\* The remote shell writes an ASCII character: one byte (bytes are numbered
\* in the order the remote produces them).
RemoteOutput(h) ==
    /\ chan[h].state = "open"
    /\ chan[h].produced - 2 * chan[h].wide < MaxProduce
    /\ chan' = [chan EXCEPT ![h].outbuf = Append(@, [n |-> chan[h].produced + 1, k |-> "ascii"]),
                            ![h].produced = @ + 1]
    /\ UNCHANGED <<service, paramiko, callers, observed, issued, connections, channels, client, bridges, resp, disconnected, failed_sends>>

\* The remote shell writes a character whose UTF-8 encoding has two bytes.
RemoteWide(h) ==
    /\ chan[h].state = "open"
    /\ chan[h].wide < MaxWide
    /\ chan' = [chan EXCEPT ![h].outbuf = @ \o <<[n |-> chan[h].produced + 1, k |-> "lead"],
                                                  [n |-> chan[h].produced + 2, k |-> "cont"]>>,
                            ![h].produced = @ + 2,
                            ![h].wide = @ + 1]
    /\ UNCHANGED <<service, paramiko, callers, observed, issued, connections, channels, client, bridges, resp, disconnected, failed_sends>>

\* The remote shell exits or the network fails: the channel sees EOF/close.
RemoteExit(h) ==
    /\ chan[h].state = "open"
    /\ chan' = [chan EXCEPT ![h].state = "dead"]
    /\ UNCHANGED <<service, paramiko, callers, observed, issued, connections, channels, client, bridges, resp, disconnected, failed_sends>>

\* --------------------------------------------------------------- the system
Polling ==
    \/ \E role \in Roles, os \in Targets, outcome \in OpenOutcomes : ssh_connect(role, os, outcome)
    \/ \E role \in Roles, cid \in Ids, data \in InputData : ssh_send(role, cid, data)
    \/ \E role \in Roles, cid \in Ids, fail \in FailPoints : ssh_read(role, cid, fail)
    \/ \E role \in Roles, cid \in Ids : ssh_disconnect(role, cid)
    \/ \E role \in Roles, cid \in Ids, geometry \in Geometries : ssh_resize(role, cid, geometry)

Remote ==
    \/ \E h \in Handles : RemoteOutput(h)
    \/ \E h \in Handles : RemoteExit(h)

Bridge ==
    \/ \E b \in Bridges, cid \in Ids : ssh_websocket_open(b, cid)
    \/ \E b \in Bridges, ev \in ClientEvents, data \in InputData, geometry \in Geometries,
          fail \in FailPoints :
            ssh_websocket_recv(b, ev, data, geometry, fail)
    \/ \E b \in Bridges, ok \in BOOLEAN : ssh_websocket_send_output(b, ok)
    \/ \E b \in Bridges, ok \in BOOLEAN : ssh_websocket_send_disconnected(b, ok)
    \/ \E b \in Bridges : ssh_websocket_sleep(b)

Next == Polling \/ Remote \/ Bridge
NextFacade == Polling \/ Remote

\* The whole relay; the polling responses are not recorded.
Spec == Init /\ [][Next]_vars
\* The polling facade and the remote hosts, with every response recorded.
SpecFacade == InitFacade /\ [][NextFacade]_vars

\* One reader polling ssh_read while the remote shells write ASCII and
\* two-byte characters, with every response recorded.
NextDrain ==
    \/ \E role \in Roles, os \in Targets, outcome \in OpenOutcomes : ssh_connect(role, os, outcome)
    \/ \E role \in Roles, cid \in Ids, fail \in FailPoints : ssh_read(role, cid, fail)
    \/ \E h \in Handles : RemoteOutput(h)
    \/ \E h \in Handles : RemoteWide(h)
    \/ \E h \in Handles : RemoteExit(h)

SpecDrain == InitFacade /\ [][NextDrain]_vars

\* The stream handlers with clients that close their stream at any time, the
\* remote hosts, and ssh_connect and ssh_disconnect of the polling facade.
NextStream ==
    \/ \E role \in Roles, os \in Targets, outcome \in OpenOutcomes : ssh_connect(role, os, outcome)
    \/ \E role \in Roles, cid \in Ids : ssh_disconnect(role, cid)
    \/ \E b \in Bridges : ClientClose(b)
    \/ Remote
    \/ Bridge

SpecStream == Init /\ [][NextStream]_vars

\* The stream handlers and ssh_connect and ssh_resize of the polling facade,
\* with their responses recorded, for remote shells that write nothing.
NextResize ==
    \/ \E role \in Roles, os \in Targets, outcome \in OpenOutcomes : ssh_connect(role, os, outcome)
    \/ \E role \in Roles, cid \in Ids, geometry \in Geometries : ssh_resize(role, cid, geometry)
    \/ \E h \in Handles : RemoteExit(h)
    \/ \E b \in Bridges, cid \in Ids : ssh_websocket_open(b, cid)
    \/ \E b \in Bridges, ev \in ClientEvents, data \in InputData, geometry \in Geometries,
          fail \in FailPoints :
            ssh_websocket_recv(b, ev, data, geometry, fail)
    \/ \E b \in Bridges, ok \in BOOLEAN : ssh_websocket_send_disconnected(b, ok)
    \/ \E b \in Bridges : ssh_websocket_sleep(b)

SpecResize == InitFacade /\ [][NextResize]_vars

\* The relay for clients that open sessions and then go away: ssh_connect and
\* the remote shells are all that runs.  The manager has no timer, no idle
\* limit and no background job, so nothing else can take a step; whatever
\* can take a step eventually does.
NextAbandoned ==
    \/ \E role \in Roles, os \in Targets, outcome \in OpenOutcomes : ssh_connect(role, os, outcome)
    \/ \E h \in Handles : RemoteOutput(h)
    \/ \E h \in Handles : RemoteExit(h)

SpecAbandoned == InitFacade /\ [][NextAbandoned]_vars /\ WF_vars(NextAbandoned)

\* The entry points with callers told apart: ssh_connect and ssh_disconnect
\* called by an administrator, the five polling endpoints called without a
\* valid token, websockets opened with and without one, and the stream
\* handlers, for remote shells that write nothing.
NextAuth ==
    \/ \E os \in Targets, outcome \in OpenOutcomes : ssh_connect("admin", os, outcome)
    \/ \E cid \in Ids : ssh_disconnect("admin", cid)
    \/ \E op \in PollingOps, cid \in Ids : get_current_user_rejects(op, cid)
    \/ \E b \in Bridges, cid \in Ids, caller \in Callers : ssh_websocket_open_by(b, cid, caller)
    \/ \E b \in Bridges, ev \in ClientEvents, data \in InputData, geometry \in Geometries,
          fail \in FailPoints :
            ssh_websocket_recv(b, ev, data, geometry, fail)
    \/ \E b \in Bridges, ok \in BOOLEAN : ssh_websocket_send_disconnected(b, ok)
    \/ \E b \in Bridges : ssh_websocket_sleep(b)

SpecAuth == InitFacade /\ [][NextAuth]_vars

\* Several readers on one session: ssh_read polled by an administrator and
\* the stream handlers, while the remote shells write ASCII and two-byte
\* characters; the clients of the streams send nothing but may close.
NextReaders ==
    \/ \E outcome \in OpenOutcomes : ssh_connect("admin", "linux", outcome)
    \/ \E cid \in Ids, fail \in FailPoints : ssh_read("admin", cid, fail)
    \/ \E h \in Handles : RemoteOutput(h)
    \/ \E h \in Handles : RemoteWide(h)
    \/ \E b \in Bridges, cid \in Ids : ssh_websocket_open(b, cid)
    \/ \E b \in Bridges, ev \in {"timeout", "close"}, data \in InputData, geometry \in Geometries,
          fail \in FailPoints :
            ssh_websocket_recv(b, ev, data, geometry, fail)
    \/ \E b \in Bridges, ok \in BOOLEAN : ssh_websocket_send_output(b, ok)
    \/ \E b \in Bridges, ok \in BOOLEAN : ssh_websocket_send_disconnected(b, ok)
    \/ \E b \in Bridges : ssh_websocket_sleep(b)

SpecReaders == InitFacade /\ [][NextReaders]_vars

\* ssh_connect and ssh_disconnect with channels and clients whose close can
\* raise, and remote shells that exit.
NextTeardown ==
    \/ \E role \in Roles, os \in Targets, outcome \in OpenOutcomes : ssh_connect(role, os, outcome)
    \/ \E role \in Roles, cid \in Ids, chan_close \in CloseOutcomes, client_close \in CloseOutcomes :
            ssh_disconnect_closing(role, cid, chan_close, client_close)
    \/ \E h \in Handles : RemoteExit(h)

SpecTeardown == InitFacade /\ [][NextTeardown]_vars

\* Every operation that names a session, with any id a caller can supply:
\* the five polling endpoints called by an administrator, with their responses
\* recorded, and the stream handlers, for remote shells that write nothing.
NextRegistry ==
    \/ \E os \in Targets, outcome \in OpenOutcomes : ssh_connect("admin", os, outcome)
    \/ \E cid \in Ids, data \in InputData : ssh_send("admin", cid, data)
    \/ \E cid \in Ids, fail \in FailPoints : ssh_read("admin", cid, fail)
    \/ \E cid \in Ids : ssh_disconnect("admin", cid)
    \/ \E cid \in Ids, geometry \in Geometries : ssh_resize("admin", cid, geometry)
    \/ \E h \in Handles : RemoteExit(h)
    \/ \E b \in Bridges, cid \in Ids : ssh_websocket_open(b, cid)
    \/ \E b \in Bridges, ev \in ClientEvents, data \in InputData, geometry \in Geometries,
          fail \in FailPoints :
            ssh_websocket_recv(b, ev, data, geometry, fail)
    \/ \E b \in Bridges, ok \in BOOLEAN : ssh_websocket_send_disconnected(b, ok)
    \/ \E b \in Bridges : ssh_websocket_sleep(b)

SpecRegistry == InitFacade /\ [][NextRegistry]_vars

\* Two writers on one channel, ssh_send and the `input` messages of the
\* stream handlers, with writes of both lengths, for remote shells that
\* write nothing.
NextWrite ==
    \/ \E role \in Roles, os \in Targets, outcome \in OpenOutcomes : ssh_connect(role, os, outcome)
    \/ \E role \in Roles, cid \in Ids, data \in InputData \cup LongData : ssh_send(role, cid, data)
    \/ \E h \in Handles : RemoteExit(h)
    \/ \E b \in Bridges, cid \in Ids : ssh_websocket_open(b, cid)
    \/ \E b \in Bridges, ev \in ClientEvents, data \in InputData \cup LongData,
          geometry \in Geometries, fail \in FailPoints :
            ssh_websocket_recv(b, ev, data, geometry, fail)
    \/ \E b \in Bridges, ok \in BOOLEAN : ssh_websocket_send_disconnected(b, ok)
    \/ \E b \in Bridges : ssh_websocket_sleep(b)

SpecWrite == Init /\ [][NextWrite]_vars

\* ssh_resize with every kind of geometry a request can carry, with
\* ssh_connect and remote shells that exit; every response is recorded.
NextGeometry ==
    \/ \E role \in Roles, os \in Targets, outcome \in OpenOutcomes : ssh_connect(role, os, outcome)
    \/ \E role \in Roles, cid \in Ids, geometry \in Geometries \cup MalformedGeometries :
            ssh_resize(role, cid, geometry)
    \/ \E h \in Handles : RemoteExit(h)

SpecGeometry == InitFacade /\ [][NextGeometry]_vars

\* ------------------------------------------------------- service shutdown
\* lifespan after its yield: alert_manager.stop() and the close of the
\* database client.  Nothing in it refers to ssh_manager.
lifespan_shutdown ==
    /\ service = "running"
    /\ service' = "stopped"
    /\ UNCHANGED <<paramiko, callers, issued, connections, channels, client, chan, bridges, observed,
                   resp, disconnected, failed_sends>>

\* The polling facade and the remote hosts until the service stops; no
\* request is served after shutdown.
NextLifespan ==
    \/ \E role \in Roles, os \in Targets, outcome \in OpenOutcomes :
            service = "running" /\ ssh_connect(role, os, outcome)
    \/ \E role \in Roles, cid \in Ids : service = "running" /\ ssh_disconnect(role, cid)
    \/ Remote
    \/ lifespan_shutdown

SpecLifespan == Init /\ [][NextLifespan]_vars

\* ------------------------------------------- the event loop during connect
\* SSHConnectionManager.connect calls client.connect(..., timeout=10) and
\* client.invoke_shell(...) directly from the coroutine (lines 117-119): both
\* block the calling thread, which is the thread of the event loop, until the
\* remote host has answered or the timeout has run out.  A client in state
\* "connecting" is one on which such a call has not returned yet; until it
\* returns no handler, and no stretch of a stream handler, can run.
LoopBlocked == \E h \in Handles : client[h] = "connecting"

\* ssh_connect up to the call of client.connect
ssh_connect_enter(role, os) ==
    /\ ~LoopBlocked
    /\ IF role = "readonly" \/ paramiko = "None" \/ os = "missing" \/ ~ShellCapable(os)
       THEN ssh_connect(role, os, "ok")
       ELSE /\ NewToken \in Ids
            /\ issued' = issued \cup {NewToken}
            /\ client' = [client EXCEPT ![NextHandle(W)] = "connecting"]
            /\ UNCHANGED <<service, paramiko, callers, observed, connections, channels, chan, bridges, resp,
                           disconnected, failed_sends>>

\* the blocking calls return or raise, and ssh_connect runs to its end
ssh_connect_return(h, outcome) ==
    /\ client[h] = "connecting"
    /\ LET r == connect([W EXCEPT !.client[h] = "none"], h, outcome) IN
        /\ SetW(r.w)
        /\ resp' = Observe([(IF r.ret
                     THEN Reply("connect", "-", h, 200, "SSH connection established")
                     ELSE Reply("connect", "-", 0, 400, "Failed to establish SSH connection"))
                        EXCEPT !.outcome = outcome, !.opens = r.opens,
                               !.touched = r.opens > 0, !.regsame = RegSame(r.w)])
    /\ UNCHANGED <<service, paramiko, callers, observed, issued, bridges, disconnected, failed_sends>>

\* one ssh_read call for the session cid, when the event loop can run it
PollRead(cid) ==
    /\ ~LoopBlocked
    /\ \E role \in Roles, fail \in FailPoints : ssh_read(role, cid, fail)

\* the next stretch of the stream handler b, when the event loop can run it
BridgeStep(b) ==
    /\ ~LoopBlocked
    /\ \/ \E ev \in ClientEvents, data \in InputData, geometry \in Geometries, fail \in FailPoints :
                ssh_websocket_recv(b, ev, data, geometry, fail)
       \/ \E ok \in BOOLEAN : ssh_websocket_send_output(b, ok)
       \/ \E ok \in BOOLEAN : ssh_websocket_send_disconnected(b, ok)
       \/ ssh_websocket_sleep(b)

NextLoop ==
    \/ \E role \in Roles, os \in Targets : ssh_connect_enter(role, os)
    \/ \E h \in Handles, outcome \in OpenOutcomes : ssh_connect_return(h, outcome)
    \/ \E cid \in Ids : PollRead(cid)
    \/ \E b \in Bridges, cid \in Ids : ~LoopBlocked /\ ssh_websocket_open(b, cid)
    \/ \E b \in Bridges : BridgeStep(b)
    \/ Remote

\* The relay with the blocking calls of connect as steps of their own.
SpecLoop == Init /\ [][NextLoop]_vars

\* --------------------------------------- read_output, one recv at a time
\* The channel buffer is filled by paramiko's transport thread while
\* read_output runs on the event loop thread, so the remote's writes
\* interleave with the steps of the loop of lines 143-144.  Here an ssh_read
\* whose read_output has not returned is resp with code 0, the remote writes
\* without end (its bytes are not numbered and no record of the output is
\* kept), and the SSH window bounds what the channel buffers.
InReadOutput == resp.op = "read" /\ resp.code = 0

\* ssh_read up to the first test of the while loop
ssh_read_enter(role, cid) ==
    /\ ~InReadOutput
    /\ IF ~is_connected(W, cid)
       THEN ssh_read(role, cid, 0)
       ELSE /\ resp' = Reply("read", role, cid, 0, "in read_output")
            /\ UNCHANGED <<service, paramiko, callers, observed, issued, connections, channels, client, chan,
                           bridges, disconnected, failed_sends>>

\* recv_ready() is true: recv(4096) takes the next chunk, or raises and the
\* bare except returns ""
drain_recv(raises) ==
    /\ InReadOutput
    /\ LET h == channels[resp.cid] IN
        /\ chan[h].outbuf # <<>>
        /\ IF raises
           THEN /\ resp' = [resp EXCEPT !.code = 200, !.detail = "output", !.touched = TRUE]
                /\ UNCHANGED chan
           ELSE /\ chan' = [chan EXCEPT ![h].outbuf =
                            SubSeq(@, (IF Len(@) < RecvSize THEN Len(@) ELSE RecvSize) + 1, Len(@))]
                /\ UNCHANGED resp
    /\ UNCHANGED <<service, paramiko, callers, observed, issued, connections, channels, client, bridges,
                   disconnected, failed_sends>>

\* recv_ready() is false: the loop ends and read_output and ssh_read return
drain_return ==
    /\ InReadOutput
    /\ chan[channels[resp.cid]].outbuf = <<>>
    /\ resp' = [resp EXCEPT !.code = 200, !.detail = "output", !.touched = TRUE]
    /\ UNCHANGED <<service, paramiko, callers, observed, issued, connections, channels, client, chan, bridges,
                   disconnected, failed_sends>>

\* The remote shell writes one more byte, as long as the window has room.
RemoteFlood(h) ==
    /\ chan[h].state = "open"
    /\ Len(chan[h].outbuf) < RecvSize
    /\ chan' = [chan EXCEPT ![h].outbuf = Append(@, [n |-> 0, k |-> "ascii"])]
    /\ UNCHANGED <<service, paramiko, callers, observed, issued, connections, channels, client, bridges, resp,
                   disconnected, failed_sends>>

DrainSteps == (\E raises \in BOOLEAN : drain_recv(raises)) \/ drain_return

NextFlood ==
    \/ \E role \in Roles, os \in Targets, outcome \in OpenOutcomes :
            ~InReadOutput /\ ssh_connect(role, os, outcome)
    \/ \E role \in Roles, cid \in Ids : ~InReadOutput /\ ssh_disconnect(role, cid)
    \/ \E role \in Roles, cid \in Ids : ssh_read_enter(role, cid)
    \/ \E raises \in BOOLEAN : drain_recv(raises)
    \/ drain_return
    \/ \E h \in Handles : RemoteFlood(h)
    \/ \E h \in Handles : RemoteExit(h)

\* The event loop thread keeps running: a loop of read_output that can take
\* its next step takes it.  Nothing is assumed of the remote.
SpecFlood == InitFacade /\ [][NextFlood]_vars /\ WF_vars(DrainSteps)

\* ================================================================== claims
Registered == DOMAIN connections \cup DOMAIN channels
CountDisconnected(log) == Cardinality({i \in DOMAIN log : log[i].type = "disconnected"})
\* The n-th connect attempt draws the n-th token and builds the n-th client,
\* so the objects of session cid are those of handle cid.
SessionHandle(cid) == cid

\* C1: once ssh_disconnect has returned for a registered id, every later
\* send, read and resize on that id answers "SSH connection not found" and
\* calls no channel method, and every disconnect answers success, whatever
\* happens on other ids in between.
C1_DisconnectThenUnknown ==
    /\ (resp.op \in {"send", "read", "resize"} /\ resp.cid \in disconnected)
            => /\ resp.code = 400
               /\ resp.detail = "SSH connection not found"
               /\ ~resp.touched
               /\ resp.regsame
    /\ resp.op = "disconnect" => resp.code = 200
    /\ \A cid \in disconnected : cid \notin Registered

C1_Witness ==
    /\ resp.op = "send"
    /\ resp.cid \in disconnected
    /\ \E other \in Ids : other # resp.cid /\ is_connected(W, other)

\* C2: whenever a stream handler leaves its loop (client close, malformed
\* message, failed stream send, or the alive check), the session of its id is
\* unregistered and its channel and client are closed in that same step.
C2_BridgeExitDestroys ==
    [][\A b \in Bridges :
        bridges[b].pc \in ActivePcs =>
            /\ bridges'[b].pc \in ActivePcs \cup {"closed"}
            /\ bridges'[b].pc = "closed" =>
                LET cid == bridges[b].cid IN
                /\ cid \notin DOMAIN connections' \cup DOMAIN channels'
                /\ cid \in DOMAIN channels => chan'[channels[cid]].state = "closed"
                /\ cid \in DOMAIN connections => client'[connections[cid]] = "closed"]_vars

C2_Witness ==
    \E b \in Bridges :
        /\ bridges[b].pc = "closed"
        /\ bridges[b].exit = "error"
        /\ bridges[b].cid \notin disconnected
        /\ \A a \in Bridges \ {b} : bridges[a].cid # bridges[b].cid
        /\ chan[SessionHandle(bridges[b].cid)].state = "closed"
        /\ client[SessionHandle(bridges[b].cid)] = "closed"

\* C3: a stream handler that finishes the drain of an iteration while its
\* session is not alive sends `disconnected` next and closes with it; a
\* handler sends `disconnected` at most once, as its last message, and does
\* nothing after it.
C3_NotAliveEmitsDisconnected ==
    /\ [](\A b \in Bridges :
            LET log == bridges[b].log IN
            /\ CountDisconnected(log) <= 1
            /\ CountDisconnected(log) = 1 =>
                    log[Len(log)].type = "disconnected" /\ bridges[b].pc = "closed")
    /\ [][\A b \in Bridges :
            (/\ bridges[b].pc \in {"recv", "send_output"}
             /\ bridges'[b].pc \in {"sleep", "send_disconnected"}
             /\ ~SessionAlive(W', bridges[b].cid))
                => bridges'[b].pc = "send_disconnected"]_vars
    /\ [][\A b \in Bridges :
            bridges[b].pc = "send_disconnected" => bridges'[b].pc \in {"send_disconnected", "closed"}]_vars

\* C4: a stream opened for an id that is not registered is closed with code
\* 4000 in the opening step, which changes neither the registry nor any
\* channel and sends nothing; the handler never does anything afterwards.
C4_RejectUnknownStream ==
    /\ [][\A b \in Bridges :
            (/\ bridges[b].pc = "idle"
             /\ bridges'[b].pc # "idle"
             /\ ~is_connected(W, bridges'[b].cid))
                => /\ bridges'[b].pc = "rejected"
                   /\ bridges'[b].exit = "4000"
                   /\ bridges'[b].log = <<>>
                   /\ W' = W]_vars
    /\ [][\A b \in Bridges : bridges[b].pc = "rejected" => bridges'[b] = bridges[b]]_vars

C4_Witness ==
    \E b \in Bridges :
        /\ bridges[b].pc = "rejected"
        /\ bridges[b].cid \notin issued
        /\ Registered # {}

\* C5 as stated: connect against a host whose os_type is not linux always
\* answers 400 "SSH only available for Linux servers", attempts no remote
\* connection and leaves the registry as it was.
C5_PlatformRejected ==
    (resp.op = "connect" /\ resp.os = "windows")
        => /\ resp.code = 400
           /\ resp.detail = "SSH only available for Linux servers"
           /\ resp.opens = 0
           /\ resp.regsame

\* C5 amended: connect against a host whose os_type is not linux never attempts
\* a remote connection and never changes the registry; it answers 400 "SSH only
\* available for Linux servers" when the caller is not readonly and paramiko is
\* installed, 403 to a readonly caller, and 500 otherwise.
C5_PlatformRejectedWhenPermitted ==
    (resp.op = "connect" /\ resp.os = "windows")
        => /\ resp.opens = 0
           /\ resp.regsame
           /\ resp.cid = 0
           /\ resp.code = IF resp.role = "readonly" THEN 403
                          ELSE IF paramiko = "None" THEN 500 ELSE 400
           /\ resp.code = 400 => resp.detail = "SSH only available for Linux servers"

C5_Witness ==
    /\ resp.op = "connect"
    /\ resp.os = "windows"
    /\ resp.code = 400
    /\ Registered # {}

\* C6: an ssh_connect that reaches the remote open makes exactly one attempt;
\* it answers 200 and registers the returned id when the open succeeded, and
\* answers 400 and leaves the registry as it was when the open failed at any
\* stage; every registered id has a client and a channel that were opened.
C6_ConnectStoresOnlyOnSuccess ==
    /\ (resp.op = "connect" /\ resp.outcome # "-") =>
            /\ resp.opens = 1
            /\ resp.outcome = "ok" =>
                    resp.code = 200 /\ resp.cid \in issued /\ ~resp.regsame
            /\ resp.outcome # "ok" =>
                    /\ resp.code = 400
                    /\ resp.detail = "Failed to establish SSH connection"
                    /\ resp.cid = 0
                    /\ resp.regsame
    /\ \A cid \in Registered :
            /\ is_connected(W, cid)
            /\ client[connections[cid]] \notin {"none", "unconnected"}
            /\ chan[channels[cid]].state # "none"

C6_Witness ==
    /\ resp.op = "connect"
    /\ resp.outcome = "shell_failed"
    /\ resp.code = 400
    /\ Registered # {}

\* C7: a readonly caller is denied connect, send, resize and disconnect with
\* 403, without a channel being touched or the registry changed.
C7_ReadonlyDenied ==
    (resp.role = "readonly" /\ resp.op \in {"connect", "send", "resize", "disconnect"})
        => /\ resp.code = 403
           /\ ~resp.touched
           /\ resp.regsame

\* C8: every registered id has a channel and a client that are both live.
C8_NoZombieEntry ==
    \A cid \in Registered : SessionAlive(W, cid)

\* C9: a session whose remote shell has exited, or whose channel has seen an
\* error or EOF, is not alive: is_connected is false for it.
C9_ExitedSessionNotAlive ==
    \A cid \in issued :
        chan[SessionHandle(cid)].state = "dead" => ~is_connected(W, cid)

\* C10: a session on which a channel send has failed is no longer registered.
C10_FailedSendTerminates ==
    \A cid \in failed_sends : ~is_connected(W, cid)

\* C11: no handler ever sees a session half torn down: at every point where
\* a handler can run, an id has a client entry exactly when it has a channel
\* entry, and no registered id refers to a channel or a client that a
\* disconnect has already closed.
C11_DestroyIsOneStep ==
    \A cid \in Ids :
        /\ cid \in DOMAIN connections <=> cid \in DOMAIN channels
        /\ cid \in DOMAIN channels => chan[channels[cid]].state # "closed"
        /\ cid \in DOMAIN connections => client[connections[cid]] # "closed"

C11_Witness ==
    \E cid \in Ids, other \in Ids, b \in Bridges :
        /\ cid # other
        /\ cid \in issued /\ cid \notin Registered
        /\ chan[SessionHandle(cid)].state = "closed"
        /\ is_connected(W, other)
        /\ bridges[b].pc \in ActivePcs /\ bridges[b].cid = cid

\* C12: every disconnect of a registered id closes the channel first and the
\* client (the transport) second: between the two halves the channel is
\* closed and the client is not yet, and no client is ever closed while the
\* channel opened on it is not.
C12_ChannelClosedBeforeTransport ==
    /\ \A cid \in Ids :
            is_connected(W, cid) =>
                LET r == disconnect_run(W, cid) IN
                /\ r.calls = << <<"channel.close", channels[cid]>>,
                                <<"client.close", connections[cid]>> >>
                /\ r.mid.chan[channels[cid]].state = "closed"
                /\ r.mid.client[connections[cid]] = client[connections[cid]]
                /\ r.w.client[connections[cid]] = "closed"
    /\ \A h \in Handles : client[h] = "closed" => chan[h].state = "closed"

C12_Witness ==
    \E cid \in Ids, other \in Ids :
        /\ client[SessionHandle(cid)] = "closed"
        /\ is_connected(W, other)
        /\ chan[channels[other]].state = "dead"
        /\ \E b \in Bridges : bridges[b].pc = "closed" /\ bridges[b].cid = cid
                                /\ bridges[b].exit = "client_closed"

\* C13: disconnect is idempotent: in every state and for every id, running
\* it a second time changes nothing and makes no close call, a run never
\* calls close on an object that is already closed, a run on an id that is
\* not registered changes nothing and makes no call, and ssh_disconnect
\* answers success every time.
C13_DisconnectIdempotent ==
    /\ \A cid \in Ids :
            LET r1 == disconnect_run(W, cid)
                r2 == disconnect_run(r1.w, cid)
            IN  /\ r2.w = r1.w
                /\ r2.calls = <<>>
                /\ cid \notin Registered => r1.w = W /\ r1.calls = <<>>
                /\ \A i \in DOMAIN r1.calls :
                        /\ r1.calls[i][1] = "channel.close" => chan[r1.calls[i][2]].state # "closed"
                        /\ r1.calls[i][1] = "client.close" => client[r1.calls[i][2]] # "closed"
                        /\ \A j \in DOMAIN r1.calls : r1.calls[j] = r1.calls[i] => j = i
    /\ resp.op = "disconnect" =>
            /\ resp.code = 200
            /\ resp.cid \notin Registered
            /\ ~resp.touched => resp.regsame

C13_Witness ==
    /\ resp.op = "disconnect"
    /\ resp.cid \in disconnected
    /\ ~resp.touched
    /\ \E other \in Ids : is_connected(W, other)

\* The numbers of the bytes a sequence of characters was made from, in order.
RECURSIVE Srcs(_)
Srcs(chars) == IF chars = <<>> THEN <<>> ELSE Head(chars).src \o Srcs(Tail(chars))
BufferedBytes(h) == {chan[h].outbuf[i].n : i \in DOMAIN chan[h].outbuf}

\* C14: for every session, the results of the successive reads, joined in
\* call order, are made from bytes of the remote in the order the remote
\* produced them: the byte numbers increase strictly (no reordering, no byte
\* twice), none of them is still in the channel buffer, and the last read's
\* result is the end of that sequence.
C14_ReadsInOrder ==
    /\ \A h \in Handles :
            LET s == Srcs(chan[h].received) IN
            /\ \A i, j \in DOMAIN s : i < j => s[i] < s[j]
            /\ \A i \in DOMAIN s : s[i] \in 1..chan[h].produced /\ s[i] \notin BufferedBytes(h)
            /\ \A i \in DOMAIN s : \A n \in BufferedBytes(h) : s[i] < n
    /\ (resp.op = "read" /\ resp.code = 200) =>
            LET got == chan[SessionHandle(resp.cid)].received IN
            /\ Len(resp.output) <= Len(got)
            /\ resp.output = SubSeq(got, Len(got) - Len(resp.output) + 1, Len(got))

C14_Witness ==
    /\ resp.op = "read"
    /\ resp.output # <<>>
    /\ Len(chan[SessionHandle(resp.cid)].received) > Len(resp.output)
    /\ Len(Srcs(chan[SessionHandle(resp.cid)].received)) = MaxProduce + 2 * MaxWide

\* C15: no output is lost in the relay: every byte that read_output has taken
\* out of a channel's buffer has been returned to the caller of that read,
\* as part of the character the remote wrote.
C15_NoOutputLost ==
    \A h \in Handles :
        \A n \in 1..chan[h].produced :
            n \notin BufferedBytes(h) =>
                \E i \in DOMAIN chan[h].received :
                    /\ \E j \in DOMAIN chan[h].received[i].src : chan[h].received[i].src[j] = n
                    /\ chan[h].received[i].ch # "U+FFFD"

\* C16: operations on different ids do not block one another: while the
\* open of one session is waiting for its remote host, ssh_read on every
\* other registered session and the next stretch of every stream handler of
\* another registered session can take a step.
C16_OtherSessionsNotBlocked ==
    \A h \in Handles :
        client[h] = "connecting" =>
            /\ \A cid \in Ids : is_connected(W, cid) => ENABLED PollRead(cid)
            /\ \A b \in Bridges :
                    (bridges[b].pc \in ActivePcs /\ is_connected(W, bridges[b].cid))
                        => ENABLED BridgeStep(b)

\* C17: read_output never blocks: a call that has entered its loop returns.
C17_DrainReturns ==
    InReadOutput ~> ~InReadOutput

\* C18: teardown is prompt.  A handler whose client has closed the stream
\* closes at its next receive, and a handler whose session a polling
\* disconnect has unregistered never gets past the alive check that ends the
\* iteration and sends nothing but `disconnected`; in the step in which a
\* handler closes, and in the step of the polling disconnect, the channel and
\* the client of the session are closed and unregistered, whatever the remote
\* does.
C18_PromptTeardown ==
    /\ [](\A cid \in disconnected :
            /\ cid \notin Registered
            /\ chan[SessionHandle(cid)].state = "closed"
            /\ client[SessionHandle(cid)] = "closed")
    /\ [][\A b \in Bridges :
            (bridges[b].gone /\ bridges[b].pc = "recv" /\ bridges'[b] # bridges[b])
                => /\ bridges'[b].pc = "closed"
                   /\ bridges'[b].log = bridges[b].log
                   /\ bridges[b].cid \notin DOMAIN connections' \cup DOMAIN channels'
                   /\ chan'[SessionHandle(bridges[b].cid)].state = "closed"
                   /\ client'[SessionHandle(bridges[b].cid)] = "closed"]_vars
    /\ [][\A b \in Bridges :
            (/\ bridges[b].pc \in {"recv", "send_output"}
             /\ bridges'[b].pc # bridges[b].pc
             /\ ~is_connected(W', bridges[b].cid))
                => bridges'[b].pc \in {"send_disconnected", "closed"}]_vars
    /\ [][\A b \in Bridges :
            bridges[b].pc = "send_disconnected" => bridges'[b].pc \in {"send_disconnected", "closed"}]_vars

C18_Witness ==
    \E a \in Bridges, b \in Bridges :
        /\ bridges[a].pc = "closed" /\ bridges[a].gone /\ bridges[a].exit = "client_closed"
        /\ chan[SessionHandle(bridges[a].cid)].state = "closed"
        /\ bridges[a].cid \notin disconnected
        /\ bridges[b].pc = "closed" /\ bridges[b].exit = "not_alive"
        /\ bridges[b].cid \in disconnected
        /\ bridges[b].log # <<>> /\ bridges[b].log[1].type = "output"

\* C20: a resize that fails ends nothing.  A polling resize whose resize_pty
\* call raised is answered with success and leaves the session registered;
\* a stream handler that has taken a message for a registered session whose
\* channel lets every resize fail, and has not met a closed or broken
\* stream, is still in its loop with the session registered and the
\* channel and the client not closed.
C20_FailedResizeKeepsSession ==
    /\ [][(resp' # resp /\ resp'.op = "resize" /\ resp'.ret = "Raised") =>
            /\ resp'.code = 200
            /\ resp'.detail = "resized"
            /\ resp'.regsame
            /\ is_connected(W', resp'.cid)
            /\ W' = W]_vars
    /\ [][\A b \in Bridges :
            (/\ bridges[b].pc = "recv"
             /\ bridges'[b].pc \notin {"recv", "closed"}
             /\ is_connected(W, bridges[b].cid)
             /\ \A g \in Geometries : resize_raises(W, bridges[b].cid, g))
                => /\ bridges'[b].pc \in {"send_output", "sleep"}
                   /\ is_connected(W', bridges[b].cid)
                   /\ chan'[channels[bridges[b].cid]].state # "closed"
                   /\ client'[connections[bridges[b].cid]] # "closed"]_vars

C20_Witness ==
    /\ resp.op = "resize"
    /\ resp.ret = "Raised"
    /\ \E b \in Bridges :
            /\ bridges[b].cid = resp.cid
            /\ bridges[b].pc = "sleep"
            /\ chan[channels[resp.cid]].pty = InitialGeometry

\* C21: an ssh_read is answered with the unknown-session error exactly when
\* its id is not registered; on a registered id it answers success and leaves
\* the registry as it was, and when the channel had nothing buffered the
\* output it returns is empty.
C21_EmptyReadIsSuccess ==
    /\ [](resp.op = "read" =>
            /\ resp.code \in {200, 400}
            /\ resp.code = 400 <=> resp.cid \notin Registered
            /\ resp.code = 400 => resp.detail = "SSH connection not found" /\ ~resp.touched
            /\ resp.code = 200 => resp.regsame /\ is_connected(W, resp.cid))
    /\ [][(/\ resp' # resp
           /\ resp'.op = "read"
           /\ is_connected(W, resp'.cid)
           /\ chan[channels[resp'.cid]].outbuf = <<>>)
            => /\ resp'.code = 200
               /\ resp'.output = <<>>
               /\ is_connected(W', resp'.cid)
               /\ W' = W]_vars

C21_Witness ==
    /\ resp.op = "read"
    /\ resp.code = 200
    /\ resp.output = <<>>
    /\ is_connected(W, resp.cid)
    /\ chan[channels[resp.cid]].produced = 0
    /\ chan[channels[resp.cid]].state = "open"

RECURSIVE Flatten(_)
Flatten(seqs) == IF seqs = <<>> THEN <<>> ELSE Head(seqs) \o Flatten(Tail(seqs))

\* C22: writes to one channel do not interleave and are complete: the
\* channel's input is the data of the send calls it has taken, each whole and
\* in one piece, one after the other.
C22_WritesWholeAndContiguous ==
    \A h \in Handles : chan[h].inbuf = Flatten(chan[h].writes)

\* C23: no channel and no client is shared between two sessions: two
\* different registered ids refer to different channels and to different
\* clients, and the channel of an id is the one opened on the client stored
\* under the same id.
C23_HandlesNotShared ==
    /\ \A a \in Registered, b \in Registered :
            a # b => /\ a \in DOMAIN channels /\ b \in DOMAIN channels
                        => channels[a] # channels[b]
                     /\ a \in DOMAIN connections /\ b \in DOMAIN connections
                        => connections[a] # connections[b]
    /\ \A a \in Registered :
            /\ is_connected(W, a)
            /\ channels[a] = connections[a]
            /\ chan[channels[a]].state # "none"
            /\ client[connections[a]] \notin {"none", "unconnected"}

C23_Witness ==
    \E a \in Ids, b \in Ids :
        /\ a # b
        /\ is_connected(W, a) /\ is_connected(W, b)
        /\ Len(chan[channels[a]].inbuf) > 0
        /\ chan[channels[b]].inbuf = <<>>

\* C24: when the service has stopped the registry is empty and every
\* channel and every client that was opened for a session is closed.
C24_ShutdownDrainsRegistry ==
    service = "stopped" =>
        /\ Registered = {}
        /\ \A h \in Handles : chan[h].state \in {"none", "closed"}
        /\ \A h \in Handles : chan[h].state # "none" => client[h] = "closed"

\* C25: a resize with malformed geometry on a registered session is answered
\* with 400, makes no call on the channel and leaves the session registered.
C25_MalformedGeometryRejected ==
    (/\ resp.op = "resize"
     /\ resp.geometry \in MalformedGeometries
     /\ resp.detail # "SSH connection not found")
        => /\ resp.code = 400
           /\ ~resp.touched
           /\ is_connected(W, resp.cid)

\* C26: one iteration of a stream handler is: the client message, then the
\* drain, then the alive check.  The stretch that takes the message ends with
\* the drain: what it drained is what the channel had buffered, and it sends
\* nothing before the drain.  When the drain is not empty the handler sends it
\* next, as one `output` message carrying exactly what was drained, with no
\* other drain in between, or closes because the stream is broken, and the
\* alive check follows; when the drain is empty no message is sent and the
\* alive check follows at once.  No `output` message is empty.
C26_IterationOrder ==
    /\ [](\A b \in Bridges :
            /\ bridges[b].pc = "send_output" => bridges[b].pending # <<>>
            /\ bridges[b].pending # <<>> =>
                    \/ bridges[b].pc = "send_output"
                    \/ bridges[b].pc = "closed" /\ bridges[b].exit = "error"
            /\ \A i \in DOMAIN bridges[b].log :
                    bridges[b].log[i].type = "output" => bridges[b].log[i].data # <<>>)
    /\ [][\A b \in Bridges :
            (bridges[b].pc = "recv" /\ bridges'[b].pc \notin {"recv", "closed"}) =>
                LET cid == bridges[b].cid
                    drained == bridges'[b].pending
                IN  /\ bridges'[b].log = bridges[b].log
                    /\ drained # <<>> =>
                            /\ bridges'[b].pc = "send_output"
                            /\ cid \in DOMAIN channels
                            /\ Srcs(drained) \o [i \in DOMAIN chan'[channels[cid]].outbuf |->
                                                    chan'[channels[cid]].outbuf[i].n]
                                    = [i \in DOMAIN chan[channels[cid]].outbuf |->
                                            chan[channels[cid]].outbuf[i].n]
                    /\ drained = <<>> =>
                            bridges'[b].pc = IF is_connected(W', cid) THEN "sleep"
                                             ELSE "send_disconnected"]_vars
    /\ [][\A b \in Bridges :
            (bridges[b].pc = "send_output" /\ bridges'[b] # bridges[b]) =>
                \/ /\ bridges'[b].pc = "closed"
                   /\ bridges'[b].exit = "error"
                   /\ bridges'[b].log = bridges[b].log
                \/ /\ bridges'[b].log = Append(bridges[b].log,
                                               [type |-> "output", data |-> bridges[b].pending])
                   /\ W' = W
                   /\ bridges'[b].pc = IF is_connected(W, bridges[b].cid) THEN "sleep"
                                       ELSE "send_disconnected"]_vars

C26_Witness ==
    \E b \in Bridges :
        /\ bridges[b].pc = "sleep"
        /\ Len(bridges[b].log) = 1
        /\ bridges[b].log[1].type = "output"
        /\ bridges[b].log[1].data = chan[SessionHandle(bridges[b].cid)].received
        /\ chan[SessionHandle(bridges[b].cid)].outbuf = <<>>

\* C27: in a stream handler that waits for its client, an `input` message is
\* handed exactly once to the send of the handler's own session: when that
\* session's channel is open the message's data becomes the last write of
\* that channel and nothing else changes, otherwise the send fails and nothing
\* changes.  A `resize` message sets the geometry of that session's terminal
\* and changes nothing else.  A message of another type, like no message,
\* changes nothing.  In a step that takes such a message the writes of the
\* handler's session grow by at most one, at the end, the writes of the other
\* sessions stay, and the handler stays in its loop.
C27_MessagesForwarded ==
    /\ [](\A b \in Bridges : bridges[b].pc = "recv" =>
            LET cid == bridges[b].cid IN
            \A data \in InputData \cup LongData, geometry \in Geometries :
                LET i == HandleMessage(W, cid, "input", data, geometry)
                    r == HandleMessage(W, cid, "resize", data, geometry)
                    o == HandleMessage(W, cid, "other", data, geometry)
                    t == HandleMessage(W, cid, "timeout", data, geometry)
                    open == is_connected(W, cid) /\ chan[channels[cid]].state = "open"
                IN  /\ open =>
                        /\ i.ret
                        /\ i.w.chan[channels[cid]].writes = Append(chan[channels[cid]].writes, data)
                        /\ i.w = [W EXCEPT !.chan[channels[cid]].writes = i.w.chan[channels[cid]].writes,
                                           !.chan[channels[cid]].inbuf = i.w.chan[channels[cid]].inbuf]
                        /\ r.w = [W EXCEPT !.chan[channels[cid]].pty = geometry]
                    /\ ~open => ~i.ret /\ i.w = W /\ r.w = W
                    /\ o.w = W /\ ~o.raised
                    /\ t.w = W /\ ~t.raised)
    /\ [][\A b \in Bridges :
            (bridges[b].pc = "recv" /\ bridges'[b].pc \notin {"recv", "closed"}) =>
                /\ bridges'[b].pc \in ActivePcs
                /\ bridges'[b].cid = bridges[b].cid
                /\ \A h \in Handles :
                    \/ chan'[h].writes = chan[h].writes
                    \/ /\ h = SessionHandle(bridges[b].cid)
                       /\ \E data \in InputData \cup LongData :
                            chan'[h].writes = Append(chan[h].writes, data)]_vars

C27_Witness ==
    \E b \in Bridges :
        /\ bridges[b].pc = "sleep"
        /\ chan[SessionHandle(bridges[b].cid)].writes = <<<<"x", "y">>, <<"p", "q", "r">>>>
        /\ chan[SessionHandle(bridges[b].cid)].pty = "80x24"
        /\ \A h \in Handles : h # SessionHandle(bridges[b].cid) => chan[h].writes = <<>>

\* C28: a step in which an id appears in the transport map or in the channel
\* map is a connect that answers 200: it adds the id it answers with, which
\* was in neither map, to both maps and adds no other id, and it is no step of
\* a stream handler.  A connect that answers anything else adds nothing.  For
\* every id a caller can supply, registered or not, send, read, resize,
\* disconnect, the message dispatch and the teardown of a stream handler never
\* add an id to either map.
C28_OnlyConnectRegisters ==
    /\ [][(DOMAIN connections' \cup DOMAIN channels') \ (DOMAIN connections \cap DOMAIN channels) # {}
            => /\ resp'.op = "connect" /\ resp'.code = 200
               /\ resp'.cid \notin DOMAIN connections \cup DOMAIN channels
               /\ DOMAIN connections' = DOMAIN connections \cup {resp'.cid}
               /\ DOMAIN channels' = DOMAIN channels \cup {resp'.cid}
               /\ bridges' = bridges]_vars
    /\ [][(resp' # resp /\ resp'.op = "connect" /\ resp'.code # 200)
            => DOMAIN connections' = DOMAIN connections /\ DOMAIN channels' = DOMAIN channels]_vars
    /\ [](\A cid \in Ids, data \in InputData, geometry \in Geometries, fail \in FailPoints,
            ev \in ClientEvents :
            \A w \in {send_command(W, cid, data).w, read_output(W, cid, fail).w,
                      resize_pty(W, cid, geometry), disconnect(W, cid),
                      HandleMessage(W, cid, ev, data, geometry).w, ssh_websocket_finally(W, cid)} :
                /\ DOMAIN w.connections \subseteq DOMAIN connections
                /\ DOMAIN w.channels \subseteq DOMAIN channels)

C28_Witness ==
    /\ resp.op = "connect" /\ resp.code = 200
    /\ DOMAIN connections = {resp.cid} /\ DOMAIN channels = {resp.cid}
    /\ Cardinality(issued) = 2
    /\ \E b \in Bridges : bridges[b].pc = "rejected" /\ bridges[b].cid # resp.cid

\* What belongs to session id in world w: its two registry entries, and the
\* input, the buffered output, the geometry and the status of its channel and
\* of its client.
SessionView(w, id) ==
    [connection |-> IF id \in DOMAIN w.connections THEN w.connections[id] ELSE 0,
     channel |-> IF id \in DOMAIN w.channels THEN w.channels[id] ELSE 0,
     inbuf |-> w.chan[SessionHandle(id)].inbuf,
     outbuf |-> w.chan[SessionHandle(id)].outbuf,
     pty |-> w.chan[SessionHandle(id)].pty,
     state |-> w.chan[SessionHandle(id)].state,
     client |-> w.client[SessionHandle(id)]]

\* C29: for two different ids A and B, whatever is done with A (send, read,
\* resize, disconnect, the message dispatch and the teardown of a stream
\* handler on A) leaves everything of B as it was: its registry entries, the
\* input and the buffered output of its channel, and whether its channel and
\* its client are open.  Every step of a stream handler leaves everything of
\* every session other than the handler's own as it was.
C29_OtherSessionsUntouched ==
    /\ [](\A A \in Ids, B \in Ids : A # B =>
            LET here == SessionView(W, B) IN
            /\ SessionView(disconnect(W, A), B) = here
            /\ SessionView(ssh_websocket_finally(W, A), B) = here
            /\ \A fail \in FailPoints : SessionView(read_output(W, A, fail).w, B) = here
            /\ \A data \in InputData, geometry \in Geometries :
                /\ SessionView(send_command(W, A, data).w, B) = here
                /\ SessionView(resize_pty(W, A, geometry), B) = here
                /\ \A ev \in ClientEvents \ {"close", "malformed"} :
                    SessionView(HandleMessage(W, A, ev, data, geometry).w, B) = here)
    /\ [][\A b \in Bridges : bridges'[b] # bridges[b] =>
            \A B \in Ids : B # bridges'[b].cid => SessionView(W', B) = SessionView(W, B)]_vars

C29_Witness ==
    \E b \in Bridges, B \in Ids :
        LET A == bridges[b].cid IN
        /\ bridges[b].pc = "sleep"
        /\ A # B /\ is_connected(W, A) /\ is_connected(W, B)
        /\ chan[SessionHandle(A)].received # <<>> /\ chan[SessionHandle(A)].inbuf # <<>>
        /\ chan[SessionHandle(B)].outbuf # <<>> /\ chan[SessionHandle(B)].inbuf = <<>>

\* C30: whenever a handler can run, the transport map and the channel map
\* have the same ids.  Every step adds the same ids to both maps and removes
\* the same ids from both maps.  From every such state, a connect with a new
\* id ends with the id in both maps or in neither, and a disconnect of any id
\* ends with the id in neither and the other ids as they were, although
\* between its two halves the id is in the transport map only.
C30_MapsHaveSameIds ==
    /\ [](DOMAIN connections = DOMAIN channels)
    /\ [][/\ DOMAIN connections' \ DOMAIN connections = DOMAIN channels' \ DOMAIN channels
          /\ DOMAIN connections \ DOMAIN connections' = DOMAIN channels \ DOMAIN channels']_vars
    /\ [](\A cid \in Ids :
            /\ cid = NewToken =>
                \A outcome \in OpenOutcomes :
                    LET r == connect(W, cid, outcome) IN
                    /\ DOMAIN r.w.connections = DOMAIN r.w.channels
                    /\ DOMAIN r.w.connections = IF r.ret THEN Registered \cup {cid} ELSE Registered
            /\ LET d == disconnect_run(W, cid) IN
                /\ DOMAIN d.w.connections = Registered \ {cid}
                /\ DOMAIN d.w.channels = Registered \ {cid}
                /\ cid \in Registered =>
                    /\ DOMAIN d.mid.connections = Registered
                    /\ DOMAIN d.mid.channels = Registered \ {cid})

C30_Witness ==
    /\ resp.op = "disconnect" /\ resp.code = 200
    /\ resp.cid \in issued /\ resp.cid \notin DOMAIN connections /\ resp.cid \notin DOMAIN channels
    /\ \E other \in Ids : other # resp.cid /\ DOMAIN connections = {other} /\ DOMAIN channels = {other}

\* C31: a session that has a stream handler in its loop stops being
\* registered only in a step of that handler itself or in a polling
\* disconnect of its id: no step of another stream handler unregisters it.
C31_ActiveBridgeKeepsSession ==
    [][\A b \in Bridges :
        (/\ bridges[b].pc \in ActivePcs
         /\ is_connected(W, bridges[b].cid)
         /\ ~is_connected(W', bridges[b].cid))
            => \/ bridges'[b] # bridges[b]
               \/ /\ bridges' = bridges
                  /\ resp'.op = "disconnect" /\ resp'.cid = bridges[b].cid]_vars

\* C32: every client whose transport is connected belongs to a registered
\* session: after a connect that failed once the transport was up, no
\* connected client is left behind.
C32_FailedOpenLeaksNothing ==
    \A h \in Handles :
        client[h] = "open" => \E cid \in DOMAIN connections : connections[cid] = h

\* C33: a polling send that answers "sent" has written to the channel: the
\* channel write it made did not fail.
C33_SentMeansWritten ==
    (resp.op = "send" /\ resp.code = 200) => resp.ret = "True"

\* C34: a session whose client neither disconnects nor opens a stream is
\* eventually not registered any more.
C34_AbandonedSessionDestroyed ==
    \A cid \in Ids : is_connected(W, cid) ~> ~is_connected(W, cid)

\* C35: no caller without a valid token gets at a session: a polling call
\* without one is answered 401 or 403 and has touched nothing, and a websocket
\* opened without one never has a handler that runs on a session.
C35_OnlyAuthenticatedCallers ==
    /\ resp.role = "anonymous" => resp.code \in {401, 403} /\ ~resp.touched
    /\ \A b \in Bridges : callers[b] = "anonymous" => bridges[b].pc \in {"idle", "rejected"}

\* The numbers of the bytes a stream handler has drained so far, in the order
\* it got them: those of its messages, then those it has drained and not sent.
BridgeBytes(b) ==
    Srcs(Flatten([i \in DOMAIN bridges[b].log |-> bridges[b].log[i].data]) \o bridges[b].pending)

Increasing(s) == \A i, j \in DOMAIN s : i < j => s[i] < s[j]
Elements(s) == {s[i] : i \in DOMAIN s}

\* C36: with several readers on one session, no byte of the remote is given
\* to two readers and every reader gets its bytes in the order the remote
\* produced them: the bytes of all reads of a channel, joined, are in
\* increasing order; so are the bytes each stream handler has drained and
\* the bytes of a polling read; two stream handlers on one id have no byte in
\* common, and a polling read has no byte in common with a stream handler on
\* its id.
C36_ReadersShareNothing ==
    /\ \A h \in Handles : Increasing(Srcs(chan[h].received))
    /\ \A b \in Bridges :
        /\ Increasing(BridgeBytes(b))
        /\ bridges[b].pc # "idle" =>
                Elements(BridgeBytes(b)) \subseteq Elements(Srcs(chan[SessionHandle(bridges[b].cid)].received))
    /\ \A a, b \in Bridges :
        (a # b /\ bridges[a].cid = bridges[b].cid) =>
            Elements(BridgeBytes(a)) \cap Elements(BridgeBytes(b)) = {}
    /\ (resp.op = "read" /\ resp.code = 200) =>
        /\ Increasing(Srcs(resp.output))
        /\ \A b \in Bridges : bridges[b].cid = resp.cid =>
                Elements(Srcs(resp.output)) \cap Elements(BridgeBytes(b)) = {}

C36_Witness ==
    \E a, b \in Bridges :
        /\ a # b /\ bridges[a].cid = bridges[b].cid
        /\ bridges[a].log # <<>> /\ bridges[a].log[1].type = "output"
        /\ bridges[b].pending # <<>>
        /\ Len(BridgeBytes(a)) + Len(BridgeBytes(b)) = MaxProduce + 2 * MaxWide

\* C37: disconnect finishes the teardown whatever the two closes do: for
\* every id, and whether channel.close() and client.close() return or raise,
\* the id is in neither map afterwards, the other entries are as they were, a
\* registered id has had its channel closed and then its client (the client
\* close is attempted even when the channel close raised), and no exception
\* leaves the call; when both closes return the result is that of the plain
\* disconnect.  ssh_disconnect answers 200 and the id is not registered.
C37_TeardownSurvivesCloseFailure ==
    /\ \A cid \in Ids, chan_close \in CloseOutcomes, client_close \in CloseOutcomes :
        LET r == disconnect_closing(W, cid, chan_close, client_close) IN
        /\ ~r.raised
        /\ r.w.connections = Without(connections, cid)
        /\ r.w.channels = Without(channels, cid)
        /\ is_connected(W, cid) =>
                r.calls = << <<"channel.close", channels[cid]>>, <<"client.close", connections[cid]>> >>
        /\ (chan_close = "closed" /\ client_close = "closed") => r.w = disconnect(W, cid)
    /\ resp.op = "disconnect" => resp.code = 200 /\ resp.cid \notin Registered

C37_Witness ==
    /\ resp.op = "disconnect" /\ resp.code = 200 /\ resp.touched
    /\ resp.cid \in issued /\ resp.cid \notin Registered
    /\ chan[SessionHandle(resp.cid)].state = "close_raised"
    /\ client[SessionHandle(resp.cid)] = "close_raised"
    /\ \E other \in Ids : is_connected(W, other)
====
